---------------------------- MODULE Spec2Model ----------------------------
(***************************************************************************)
(* A model of filesize-cli (src/src/filesize_cli/cli.py): main, the        *)
(* per-path loop of FilesizeCLI.get_size, _process_path, the directory     *)
(* scan of _compute_size and the formatter _format_size.                   *)
(*                                                                         *)
(* Byte counts are Python integers (unbounded).  They are modelled as      *)
(* little-endian sequences of base-1024 limbs without a leading zero limb  *)
(* (0 is <<>>), so that values up to 1024^MaxLimbs are built from small    *)
(* machine integers.  `size / factor` is Python's true division: the       *)
(* quotient correctly rounded to an IEEE-754 double (53 significant bits,  *)
(* ties to even).  Text is modelled by TLA+ strings.                       *)
(***************************************************************************)
EXTENDS Integers, Sequences, FiniteSets, TLC

VARIABLES
    args,        \* self.args: [paths, clean, recursive, unit]
    fs,          \* the filesystem: path string -> node
    pc,          \* control location
    idx,         \* position of the `for path_str in paths` loop (1-based)
    results,     \* get_size: results
    output,      \* get_size: the joined output handed to print
    path,        \* _process_path/_compute_size: str(path)
    iterator,    \* _compute_size: entries the iterator has still to yield
    total_size,  \* _compute_size: total_size
    file_count,  \* _compute_size: file_count
    stats,       \* the value or exception _compute_size ended with
    size,        \* _format_size: its argument
    formatted,   \* _format_size: its result
    interrupted, \* a KeyboardInterrupt was delivered
    exit         \* what main returned (or the SystemExit that left it)

vars == <<args, fs, pc, idx, results, output, path, iterator, total_size,
          file_count, stats, size, formatted, interrupted, exit>>

None == "None"

(***************************************************************************)
(* Bounds of the model.                                                    *)
(***************************************************************************)
MaxLimbs == 6
MaxPaths == 2
MaxEntries == 3
MaxSub == 1

(***************************************************************************)
(* Python integers as base-KB limb sequences.                              *)
(***************************************************************************)
KB == 1024

RECURSIVE Norm(_)
Norm(n) ==
    IF n = <<>> THEN <<>>
    ELSE IF n[Len(n)] = 0 THEN Norm(SubSeq(n, 1, Len(n) - 1))
    ELSE n

RECURSIVE Zeros(_)
Zeros(k) == IF k = 0 THEN <<>> ELSE <<0>> \o Zeros(k - 1)

\* KB ** k
KBPow(k) == Zeros(k) \o <<1>>

RECURSIVE AddC(_, _, _)
AddC(a, b, c) ==
    IF a = <<>> /\ b = <<>> THEN (IF c = 0 THEN <<>> ELSE <<c>>)
    ELSE LET x == IF a = <<>> THEN 0 ELSE Head(a)
             y == IF b = <<>> THEN 0 ELSE Head(b)
             v == x + y + c
         IN  <<v % KB>> \o AddC(IF a = <<>> THEN <<>> ELSE Tail(a),
                                IF b = <<>> THEN <<>> ELSE Tail(b),
                                v \div KB)

\* a + b on Python integers
Add(a, b) == Norm(AddC(a, b, 0))

RECURSIVE MulC(_, _, _)
MulC(n, m, c) ==
    IF n = <<>> THEN (IF c = 0 THEN <<>> ELSE <<c>>)
    ELSE LET v == Head(n) * m + c
         IN  <<v % KB>> \o MulC(Tail(n), m, v \div KB)

\* n * m for a small m (m < KB)
MulSmall(n, m) == Norm(MulC(n, m, 0))

RECURSIVE DivC(_, _)
DivC(n, d) ==
    IF n = <<>> THEN [q |-> <<>>, r |-> 0]
    ELSE LET hi  == DivC(Tail(n), d)
             cur == hi.r * KB + Head(n)
         IN  [q |-> <<cur \div d>> \o hi.q, r |-> cur % d]

\* divmod(n, d) for a small d
DivSmall(n, d) == LET x == DivC(n, d) IN [q |-> Norm(x.q), r |-> x.r]

\* a >= b on Python integers
RECURSIVE GeqSame(_, _)
GeqSame(a, b) ==
    IF a = <<>> THEN TRUE
    ELSE IF a[Len(a)] # b[Len(b)] THEN a[Len(a)] > b[Len(b)]
    ELSE GeqSame(SubSeq(a, 1, Len(a) - 1), SubSeq(b, 1, Len(b) - 1))

Geq(a, b) ==
    IF Len(a) # Len(b) THEN Len(a) > Len(b) ELSE GeqSame(a, b)

\* a negative integer (only its sign matters to the program)
Negative == <<-1>>

IsNegative(n) == n # <<>> /\ n[Len(n)] < 0

(***************************************************************************)
(* Decimal text of integers: f"{int(x)}" and the digits of f"{x:.2f}".     *)
(***************************************************************************)
Digit == <<"0", "1", "2", "3", "4", "5", "6", "7", "8", "9">>

RECURSIVE DecNat(_)
DecNat(v) ==
    IF v < 10 THEN Digit[v + 1] ELSE DecNat(v \div 10) \o Digit[(v % 10) + 1]

RECURSIVE Dec(_)
Dec(n) ==
    IF n = <<>> THEN "0"
    ELSE LET x == DivSmall(n, 10)
         IN  IF x.q = <<>> THEN Digit[x.r + 1] ELSE Dec(x.q) \o Digit[x.r + 1]

(***************************************************************************)
(* Floats: size / factor for a factor KB ** exp.  The double nearest to    *)
(* n / KB^exp is RoundSig(n) / KB^exp, a power of two only moving the      *)
(* exponent.  A float is kept as [m |-> integer, exp |-> e], the value     *)
(* m / KB^e.                                                               *)
(***************************************************************************)
Mantissa == 53

BitLenLimb(x) == CHOOSE k \in 0 .. 10 : (x < 2 ^ k) /\ (k = 0 \/ x >= 2 ^ (k - 1))

BitLen(n) == IF n = <<>> THEN 0 ELSE 10 * (Len(n) - 1) + BitLenLimb(n[Len(n)])

\* n rounded to `Mantissa` significant bits, ties to even
RoundSig(n) ==
    LET s == BitLen(n) - Mantissa IN
    IF s <= 0 THEN n
    ELSE
        LET a     == s \div 10          \* whole limbs dropped
            b     == s % 10             \* bits dropped of limb a + 1
            cut   == n[a + 1]
            rb    == cut % (2 ^ b)
            lowz  == \A j \in 1 .. a : n[j] = 0
            \* the dropped part against half a unit in the last place
            above == IF b > 0
                     THEN rb > 2 ^ (b - 1) \/ (rb = 2 ^ (b - 1) /\ ~lowz)
                     ELSE n[a] > 512
                          \/ (n[a] = 512 /\ \E j \in 1 .. (a - 1) : n[j] # 0)
            tie   == IF b > 0
                     THEN rb = 2 ^ (b - 1) /\ lowz
                     ELSE n[a] = 512 /\ \A j \in 1 .. (a - 1) : n[j] = 0
            odd   == ((cut \div (2 ^ b)) % 2) = 1
            kept  == [j \in 1 .. Len(n) |->
                        IF j <= a THEN 0 ELSE IF j = a + 1 THEN cut - rb ELSE n[j]]
            ulp   == Zeros(a) \o <<2 ^ b>>
        IN  IF above \/ (tie /\ odd) THEN Add(kept, ulp) ELSE Norm(kept)

\* size / factor
TrueDiv(n, exp) == [m |-> RoundSig(n), exp |-> exp]

\* int(value)
IntOf(v) ==
    IF Len(v.m) <= v.exp THEN <<>> ELSE SubSeq(v.m, v.exp + 1, Len(v.m))

\* f"{value:.2f}": the float's exact value rounded to hundredths, ties to even
Fmt2f(v) ==
    LET m100 == MulSmall(v.m, 100)
        e    == v.exp
        hi   == IF Len(m100) <= e THEN <<>> ELSE SubSeq(m100, e + 1, Len(m100))
        lo   == [j \in 1 .. e |-> IF j <= Len(m100) THEN m100[j] ELSE 0]
        lowz == \A j \in 1 .. (e - 1) : lo[j] = 0
        above == e > 0 /\ (lo[e] > 512 \/ (lo[e] = 512 /\ ~lowz))
        tie  == e > 0 /\ lo[e] = 512 /\ lowz
        odd  == hi # <<>> /\ hi[1] % 2 = 1
        q    == IF above \/ (tie /\ odd) THEN Add(hi, <<1>>) ELSE hi
        x    == DivSmall(q, 100)
    IN  Dec(x.q) \o "." \o Digit[(x.r \div 10) + 1] \o Digit[(x.r % 10) + 1]

(***************************************************************************)
(* The unit table and _format_size.                                        *)
(***************************************************************************)
\* factor = KB ** exp (MB = KB**2, GB = KB**3, TB = KB**4)
UNIT_MAP ==
    [b  |-> [exp |-> 0, suffix |-> "B"],
     kb |-> [exp |-> 1, suffix |-> "KB"],
     mb |-> [exp |-> 2, suffix |-> "MB"],
     gb |-> [exp |-> 3, suffix |-> "GB"],
     tb |-> [exp |-> 4, suffix |-> "TB"]]

UnitKeys == {"b", "kb", "mb", "gb", "tb"}

\* the scan order of the auto-selection loop
AutoOrder == <<"tb", "gb", "mb", "kb", "b">>

\* what a call ended with: st = "ok" and a value, or st = the exception's
\* class and msg = str(e)
Raise(kind, msg) == [st |-> kind, files |-> 0, size |-> <<>>, text |-> "", msg |-> msg]

Text(t) == [st |-> "ok", files |-> 0, size |-> <<>>, text |-> t, msg |-> ""]

Stats(n, sz) == [st |-> "ok", files |-> n, size |-> sz, text |-> "", msg |-> ""]

NoResult == [st |-> "none", files |-> 0, size |-> <<>>, text |-> "", msg |-> ""]

\* a variant that carries a quotient displayed as 1024.00 into the next unit
RenderCarry(n, u) ==
    LET value == TrueDiv(n, u.exp)
    IN  IF u.exp # 0
        THEN IF Fmt2f(value) = "1024.00" /\ u.exp < 4
             THEN "1.00 " \o UNIT_MAP[AutoOrder[Len(AutoOrder) - u.exp - 1]].suffix
             ELSE Fmt2f(value) \o " " \o u.suffix
        ELSE Dec(IntOf(value)) \o " " \o u.suffix

\* f"{value:.2f} {suffix}" if factor != 1 else f"{int(value)} {suffix}"
Render(n, u) ==
    LET value == TrueDiv(n, u.exp)
    IN  IF u.exp # 0 THEN Fmt2f(value) \o " " \o u.suffix
        ELSE Dec(IntOf(value)) \o " " \o u.suffix

\* a variant of the loop that compares with > instead of >=
RECURSIVE AutoSelectStrict(_, _)
AutoSelectStrict(n, k) ==
    IF k > Len(AutoOrder) THEN Dec(n) \o " B"
    ELSE LET u == UNIT_MAP[AutoOrder[k]]
         IN  IF Geq(n, KBPow(u.exp)) /\ n # KBPow(u.exp) THEN Render(n, u)
             ELSE AutoSelectStrict(n, k + 1)

RECURSIVE AutoSelect(_, _)
AutoSelect(n, k) ==
    IF k > Len(AutoOrder) THEN Dec(n) \o " B"
    ELSE LET u == UNIT_MAP[AutoOrder[k]]
         IN  IF Geq(n, KBPow(u.exp)) THEN Render(n, u) ELSE AutoSelect(n, k + 1)

_format_size(a, n) ==
    IF IsNegative(n) THEN Raise("ValueError", "Size must be a non-negative number")
    ELSE IF a.unit # None THEN Text(Render(n, UNIT_MAP[a.unit]))
    ELSE Text(AutoSelect(n, 1))

(***************************************************************************)
(* Path strings and pathlib.  Path(path_str) keeps pathlib's parsed form,  *)
(* whose str() drops empty and "." components and a trailing separator.    *)
(***************************************************************************)
RECURSIVE Split(_, _)
Split(s, cur) ==
    IF s = "" THEN <<cur>>
    ELSE IF Head(s) = "/" THEN <<cur>> \o Split(Tail(s), "")
    ELSE Split(Tail(s), cur \o Head(s))

IsPart(c) == c # "" /\ c # "."

Parts(s) == SelectSeq(Split(s, ""), IsPart)

Root(s) ==
    IF Len(s) >= 1 /\ SubSeq(s, 1, 1) = "/"
    THEN IF Len(s) >= 2 /\ SubSeq(s, 2, 2) = "/"
            /\ ~(Len(s) >= 3 /\ SubSeq(s, 3, 3) = "/")
         THEN "//" ELSE "/"
    ELSE ""

RECURSIVE JoinParts(_)
JoinParts(ps) ==
    IF ps = <<>> THEN ""
    ELSE IF Len(ps) = 1 THEN ps[1]
    ELSE ps[1] \o "/" \o JoinParts(Tail(ps))

\* str(Path(path_str))
Path(s) ==
    LET r == Root(s)
        ps == Parts(s)
    IN  IF r = "" /\ ps = <<>> THEN "." ELSE r \o JoinParts(ps)

(***************************************************************************)
(* The filesystem, as the calls of the program see it.  `fault` says which *)
(* call on the node fails with an OSError:                                 *)
(*   "access"    exists()/is_file() on a path given to the program         *)
(*   "isfile"    is_file() on an entry met during a scan                   *)
(*   "stat"      stat() after is_file() answered True                      *)
(*   "list_perm" listing the directory: PermissionError                    *)
(*   "list_io"   listing the directory: another OSError                    *)
(***************************************************************************)
Missing == [kind |-> "missing", size |-> <<>>, entries |-> <<>>, fault |-> "none"]

File(sz, flt) == [kind |-> "file", size |-> sz, entries |-> <<>>, fault |-> flt]

Dir(es, flt) == [kind |-> "dir", size |-> <<>>, entries |-> es, fault |-> flt]

Other(flt) == [kind |-> "other", size |-> <<>>, entries |-> <<>>, fault |-> flt]

Lookup(f, p) == IF p \in DOMAIN f THEN f[p] ELSE Missing

\* str(e) of the OSError a failing call raises
OSText(flt, p) ==
    IF flt \in {"access", "isfile", "list_perm"}
    THEN "[Errno 13] Permission denied: '" \o p \o "'"
    ELSE "[Errno 5] Input/output error: '" \o p \o "'"

Item(p, i, node) == [ev |-> "item", name |-> p \o "/e" \o DecNat(i), node |-> node]

Failure(flt, p) == [ev |-> "error", name |-> p, node |-> Other(flt)]

\* what listing one directory yields: its entries, or the failure
Listing(p, node) ==
    IF node.fault \in {"list_perm", "list_io"} THEN <<Failure(node.fault, p)>>
    ELSE [i \in 1 .. Len(node.entries) |-> Item(p, i, node.entries[i])]

\* rglob("*") skips a directory it may not list (PermissionError) and
\* lets every other OSError out
RglobListing(p, node) ==
    IF node.fault = "list_perm" THEN <<>> ELSE Listing(p, node)

RECURSIVE Descend(_)
Descend(items) ==
    IF items = <<>> THEN <<>>
    ELSE LET it == Head(items)
         IN  (IF it.ev = "item" /\ it.node.kind = "dir"
              THEN RglobListing(it.name, it.node) ELSE <<>>)
             \o Descend(Tail(items))

\* a variant that lists only the directory itself whatever the flag says
IterateFlat(a, p, node) == Listing(p, node)

\* path.rglob("*") if self.args.recursive else path.iterdir()
Iterate(a, p, node) ==
    IF a.recursive
    THEN LET top == RglobListing(p, node) IN top \o Descend(top)
    ELSE Listing(p, node)

(***************************************************************************)
(* _compute_size up to its scan loop, and _process_path's output line.     *)
(***************************************************************************)
\* _compute_size(path) from its entry to a return, a raise or the loop
_compute_size(a, p, node) ==
    IF node.kind = "file" THEN
        IF node.fault = "stat"
        THEN [pc |-> "raised", iterator |-> <<>>,
              stats |-> Raise("OSError", "Cannot access file " \o p \o ": "
                                          \o OSText(node.fault, p))]
        ELSE [pc |-> "computed", iterator |-> <<>>, stats |-> Stats(1, node.size)]
    ELSE IF node.kind = "dir" THEN
        [pc |-> "scan", iterator |-> Iterate(a, p, node), stats |-> NoResult]
    ELSE
        [pc |-> "raised", iterator |-> <<>>,
         stats |-> Raise("ValueError", "Path is neither file nor directory: " \o p)]

\* a variant whose label is singular for every count up to 1
ProcessPathLabel(a, p, st, formatted_size) ==
    IF a.clean THEN Dec(st.size)
    ELSE LET files_label == IF st.files <= 1 THEN "file" ELSE "files"
         IN  p \o ": " \o formatted_size \o " (" \o DecNat(st.files) \o " "
               \o files_label \o ")"

\* _process_path after _compute_size returned: the line it returns
_process_path(a, p, st, formatted_size) ==
    IF a.clean THEN Dec(st.size)
    ELSE LET files_label == IF st.files = 1 THEN "file" ELSE "files"
         IN  p \o ": " \o formatted_size \o " (" \o DecNat(st.files) \o " "
               \o files_label \o ")"

\* self._normalize_paths(None)
_normalize_paths(a) == a.paths

\* "\n".join(results)
RECURSIVE Join(_)
Join(rs) ==
    IF rs = <<>> THEN ""
    ELSE IF Len(rs) = 1 THEN rs[1]
    ELSE rs[1] \o "\n" \o Join(Tail(rs))

\* the exceptions get_size's except clause catches
Caught == {"FileNotFoundError", "PermissionError", "OSError"}

(***************************************************************************)
(* The inputs: argument lists over a fixed host filesystem.                *)
(***************************************************************************)
HostFS ==
    [f |-> File(<<13>>, "none"),
     d |-> Dir(<<File(<<100>>, "none"), File(<<200>>, "none"),
                 Dir(<<File(<<300>>, "none")>>, "none")>>, "none"),
     z |-> Dir(<<>>, "none"),
     n |-> Other("none"),
     e |-> File(<<13>>, "stat"),
     u |-> Dir(<<File(<<100>>, "none"), File(<<200>>, "isfile")>>, "none"),
     a |-> File(<<13>>, "access")]

PathInputs ==
    {"f", "./f", "d/", "z", "n", "x", "e", "u", "a"}

PathLists == UNION {[1 .. k -> PathInputs] : k \in 0 .. MaxPaths}

Units == UnitKeys \cup {None}

Idle ==
    /\ idx = 0 /\ results = <<>> /\ output = "" /\ path = ""
    /\ iterator = <<>> /\ total_size = <<>> /\ file_count = 0
    /\ stats = NoResult /\ size = <<>> /\ formatted = NoResult
    /\ interrupted = FALSE /\ exit = -1

Init ==
    /\ args \in [paths : PathLists, clean : BOOLEAN, recursive : BOOLEAN,
                 unit : Units]
    /\ fs = HostFS
    /\ pc = "main"
    /\ Idle

(***************************************************************************)
(* main and get_size.                                                      *)
(***************************************************************************)
\* FilesizeCLI(): argparse leaves with SystemExit(2) when no PATH is given
ParseArgs ==
    /\ pc = "main"
    /\ IF args.paths = <<>>
       THEN pc' = "sysexit" /\ exit' = 2 /\ idx' = idx
       ELSE pc' = "loop" /\ exit' = exit /\ idx' = 1
    /\ UNCHANGED <<args, fs, results, output, path, iterator, total_size,
                   file_count, stats, size, formatted, interrupted>>

\* one `for path_str in paths` iteration up to _compute_size's loop
BeginPath ==
    /\ pc = "loop"
    /\ idx <= Len(_normalize_paths(args))
    /\ LET path_str == _normalize_paths(args)[idx]
           p        == Path(path_str)
           node     == Lookup(fs, p)
           r        == IF node.fault = "access"
                       THEN [pc |-> "raised", iterator |-> <<>>,
                             stats |-> Raise("PermissionError", OSText(node.fault, p))]
                       ELSE IF node.kind = "missing"
                       THEN [pc |-> "raised", iterator |-> <<>>,
                             stats |-> Raise("FileNotFoundError",
                                             "Path does not exist: " \o p)]
                       ELSE _compute_size(args, p, node)
       IN  /\ path' = p
           /\ pc' = r.pc
           /\ iterator' = r.iterator
           /\ stats' = r.stats
    /\ total_size' = <<>>
    /\ file_count' = 0
    /\ UNCHANGED <<args, fs, idx, results, output, size, formatted,
                   interrupted, exit>>

\* one `for item in iterator` iteration
ScanStep ==
    /\ pc = "scan"
    /\ iterator # <<>>
    /\ LET item == Head(iterator) IN
       IF item.ev = "error" \/ item.node.fault = "isfile" THEN
           \* an OSError inside the outer try
           /\ pc' = "raised"
           /\ stats' = Raise("OSError", "Cannot access directory " \o path \o ": "
                                        \o OSText(item.node.fault, item.name))
           /\ UNCHANGED <<iterator, total_size, file_count>>
       ELSE
           /\ pc' = pc
           /\ stats' = stats
           /\ iterator' = Tail(iterator)
           /\ IF item.node.kind = "file" /\ item.node.fault # "stat"
              THEN /\ total_size' = Add(total_size, item.node.size)
                   /\ file_count' = file_count + 1
              ELSE UNCHANGED <<total_size, file_count>>
    /\ UNCHANGED <<args, fs, idx, results, output, path, size, formatted,
                   interrupted, exit>>

\* the iterator is exhausted: return {"files": file_count, "size": total_size}
ScanEnd ==
    /\ pc = "scan"
    /\ iterator = <<>>
    /\ stats' = Stats(file_count, total_size)
    /\ pc' = "computed"
    /\ UNCHANGED <<args, fs, idx, results, output, path, iterator, total_size,
                   file_count, size, formatted, interrupted, exit>>

\* _process_path after _compute_size, and results.append(result)
EndPath ==
    /\ pc = "computed"
    /\ size' = stats.size
    /\ formatted' = _format_size(args, stats.size)
    /\ IF formatted'.st = "ok"
       THEN /\ results' = Append(results,
                                 _process_path(args, path, stats, formatted'.text))
            /\ idx' = idx + 1
            /\ pc' = "loop"
            /\ stats' = stats
       ELSE /\ pc' = "raised"
            /\ stats' = formatted'
            /\ UNCHANGED <<results, idx>>
    /\ UNCHANGED <<args, fs, output, path, iterator, total_size, file_count,
                   interrupted, exit>>

\* except (FileNotFoundError, PermissionError, OSError) as e
Except ==
    /\ pc = "raised"
    /\ stats.st \in Caught
    /\ results' = Append(results, _normalize_paths(args)[idx] \o ": Error - "
                                    \o stats.msg)
    /\ idx' = idx + 1
    /\ pc' = "loop"
    /\ UNCHANGED <<args, fs, output, path, iterator, total_size, file_count,
                   stats, size, formatted, interrupted, exit>>

\* an exception get_size lets through reaches main's `except Exception`
Unexpected ==
    /\ pc = "raised"
    /\ stats.st \notin Caught
    /\ exit' = 1
    /\ pc' = "exited"
    /\ UNCHANGED <<args, fs, idx, results, output, path, iterator, total_size,
                   file_count, stats, size, formatted, interrupted>>

\* the loop is over: print the joined output, main returns 0
Return ==
    /\ pc = "loop"
    /\ idx > Len(_normalize_paths(args))
    /\ output' = Join(results)
    /\ exit' = 0
    /\ pc' = "exited"
    /\ UNCHANGED <<args, fs, idx, results, path, iterator, total_size,
                   file_count, stats, size, formatted, interrupted>>

\* Ctrl-C anywhere inside main's try block
KeyboardInterrupt ==
    /\ pc \in {"main", "loop", "scan", "computed", "raised"}
    /\ interrupted' = TRUE
    /\ exit' = 130
    /\ pc' = "exited"
    /\ UNCHANGED <<args, fs, idx, results, output, path, iterator, total_size,
                   file_count, stats, size, formatted>>

Next ==
    \/ ParseArgs
    \/ BeginPath
    \/ ScanStep
    \/ ScanEnd
    \/ EndPath
    \/ Except
    \/ Unexpected
    \/ Return
    \/ KeyboardInterrupt

Spec == Init /\ [][Next]_vars

(***************************************************************************)
(* _compute_size called on its own (as the tests call it), over every      *)
(* small tree.                                                             *)
(***************************************************************************)
ScanRoot == "t"

FileSizes == {<<100>>, <<1023, 1023>>}

SubFiles == {File(<<300>>, "none"), File(<<300>>, "stat")}

SubLists == UNION {[1 .. k -> SubFiles] : k \in 0 .. MaxSub}

Entries ==
    {File(sz, "none") : sz \in FileSizes}
    \cup {File(<<>>, "stat"), File(<<100>>, "isfile"), Other("none")}
    \cup {Dir(c, "none") : c \in SubLists}
    \cup {Dir(<<File(<<300>>, "none")>>, flt) : flt \in {"list_perm", "list_io"}}

EntryLists == UNION {[1 .. k -> Entries] : k \in 0 .. MaxEntries}

Nodes ==
    {Missing, Other("none")}
    \cup {File(sz, flt) : sz \in FileSizes, flt \in {"none", "stat"}}
    \cup {Dir(es, flt) : es \in EntryLists, flt \in {"none", "list_perm", "list_io"}}

InitCompute ==
    /\ \E r \in BOOLEAN :
         args = [paths |-> <<ScanRoot>>, clean |-> FALSE, recursive |-> r,
                 unit |-> None]
    /\ \E node \in Nodes : fs = [t |-> node]
    /\ pc = "compute_call"
    /\ idx = 0 /\ results = <<>> /\ output = "" /\ path = Path(ScanRoot)
    /\ iterator = <<>> /\ total_size = <<>> /\ file_count = 0
    /\ stats = NoResult /\ size = <<>> /\ formatted = NoResult
    /\ interrupted = FALSE /\ exit = -1

\* cli._compute_size(path)
ComputeCall ==
    /\ pc = "compute_call"
    /\ LET r == _compute_size(args, path, Lookup(fs, path))
       IN  pc' = r.pc /\ iterator' = r.iterator /\ stats' = r.stats
    /\ UNCHANGED <<args, fs, idx, results, output, path, total_size,
                   file_count, size, formatted, interrupted, exit>>

NextCompute == ComputeCall \/ ScanStep \/ ScanEnd

SpecCompute == InitCompute /\ [][NextCompute]_vars

(***************************************************************************)
(* _format_size called on its own, over integers of up to MaxLimbs limbs.  *)
(***************************************************************************)
LimbValues == {0, 1, 512, KB - 1}

\* 13, 100, 128 (0.125 KB), 384 (0.375 KB), 2^53 + 1 and 2^59 + 10
Landmarks ==
    {<<13>>, <<100>>, <<128>>, <<384>>, <<1, 0, 0, 0, 0, 8>>, <<10, 0, 0, 0, 0, 512>>}

Sizes ==
    {n \in UNION {[1 .. k -> LimbValues] : k \in 0 .. MaxLimbs} :
        n = <<>> \/ n[Len(n)] # 0}
    \cup Landmarks \cup {Negative}

InitFormat ==
    /\ \E u \in Units :
         args = [paths |-> <<>>, clean |-> FALSE, recursive |-> FALSE, unit |-> u]
    /\ size \in Sizes
    /\ fs = [t |-> Missing]
    /\ pc = "format_call"
    /\ idx = 0 /\ results = <<>> /\ output = "" /\ path = ""
    /\ iterator = <<>> /\ total_size = <<>> /\ file_count = 0
    /\ stats = NoResult /\ formatted = NoResult
    /\ interrupted = FALSE /\ exit = -1

\* cli._format_size(size)
FormatCall ==
    /\ pc = "format_call"
    /\ formatted' = _format_size(args, size)
    /\ pc' = "format_done"
    /\ UNCHANGED <<args, fs, idx, results, output, path, iterator, total_size,
                   file_count, stats, size, interrupted, exit>>

NextFormat == FormatCall

SpecFormat == InitFormat /\ [][NextFormat]_vars

(***************************************************************************)
(* Reading a rendered size back, for the properties of _format_size.       *)
(***************************************************************************)
IsDigit(c) == \E d \in 1 .. 10 : Digit[d] = c

DigitValue(c) == (CHOOSE d \in 1 .. 10 : Digit[d] = c) - 1

RECURSIVE IsNumeral(_)
IsNumeral(t) ==
    /\ t # ""
    /\ IsDigit(SubSeq(t, Len(t), Len(t)))
    /\ (Len(t) = 1 \/ IsNumeral(SubSeq(t, 1, Len(t) - 1)))

\* a decimal numeral without a superfluous leading zero
IsDecimal(t) == IsNumeral(t) /\ (Len(t) = 1 \/ Head(t) # "0")

\* the value of a numeral of at most three digits
RECURSIVE SmallValue(_)
SmallValue(t) ==
    IF t = "" THEN 0
    ELSE 10 * SmallValue(SubSeq(t, 1, Len(t) - 1))
         + DigitValue(SubSeq(t, Len(t), Len(t)))

\* the integer a numeral denotes, read three digits at a time
RECURSIVE ParseDec(_)
ParseDec(t) ==
    IF Len(t) <= 3 THEN Norm(<<SmallValue(t)>>)
    ELSE Add(MulSmall(ParseDec(SubSeq(t, 1, Len(t) - 3)), 1000),
             Norm(<<SmallValue(SubSeq(t, Len(t) - 2, Len(t)))>>))

EndsWith(t, e) == Len(t) >= Len(e) /\ SubSeq(t, Len(t) - Len(e) + 1, Len(t)) = e

\* the text before " <suffix>"
NumberPart(t, suffix) == SubSeq(t, 1, Len(t) - Len(suffix) - 1)

\* t is "<integer>.<two digits>"
IsTwoDecimals(t) ==
    /\ Len(t) >= 4
    /\ SubSeq(t, Len(t) - 2, Len(t) - 2) = "."
    /\ IsDecimal(SubSeq(t, 1, Len(t) - 3))
    /\ IsNumeral(SubSeq(t, Len(t) - 1, Len(t)))

\* the hundredths a two-decimal text shows
Hundredths(t) == ParseDec(SubSeq(t, 1, Len(t) - 3) \o SubSeq(t, Len(t) - 1, Len(t)))

\* h / 100 is n / KB^k to the nearest hundredth: |100 n - h KB^k| <= KB^k / 2
NearestHundredth(h, n, k) ==
    LET scaled == IF h = <<>> THEN <<>> ELSE Zeros(k) \o h
        lhs    == MulSmall(scaled, 2)
        rhs    == MulSmall(n, 200)
    IN  /\ Geq(Add(lhs, KBPow(k)), rhs)
        /\ Geq(Add(rhs, KBPow(k)), lhs)

\* t shows n in the unit of exponent k: "<n / KB^k to two decimals> <suffix>",
\* or "<n> B" for k = 0
ShowsIn(t, n, k) ==
    LET suffix == UNIT_MAP[AutoOrder[Len(AutoOrder) - k]].suffix
        num    == NumberPart(t, suffix)
    IN  /\ EndsWith(t, " " \o suffix)
        /\ IF k = 0 THEN IsDecimal(num) /\ ParseDec(num) = n
           ELSE IsTwoDecimals(num) /\ NearestHundredth(Hundredths(num), n, k)

\* KB^k <= n < KB^(k+1)
InBand(n, k) == Geq(n, KBPow(k)) /\ ~Geq(n, KBPow(k + 1))

Formatted == pc = "format_done" /\ formatted.st = "ok"

(***************************************************************************)
(* C7: with no forced unit, _format_size picks the largest unit whose      *)
(* multiplier is <= n: KB^k <= n < KB^(k+1), k in 1..4, gives the suffix   *)
(* of exponent k; 1 <= n < 1024 gives B; n = 0 gives the fallback "0 B".   *)
(***************************************************************************)
C7_AutoSelectsLargestUnit ==
    (Formatted /\ args.unit = None) =>
        /\ size = <<>> => formatted.text = "0 B"
        /\ \A k \in 0 .. 4 :
             InBand(size, k) =>
                /\ EndsWith(formatted.text,
                            " " \o UNIT_MAP[AutoOrder[Len(AutoOrder) - k]].suffix)
                /\ IsNumeral(SubSeq(formatted.text, 1, 1))
                /\ (k = 0) = IsDecimal(NumberPart(formatted.text, "B"))

C7_Witness ==
    /\ Formatted /\ args.unit = None
    /\ InBand(size, 4)
    /\ size # KBPow(4)
    /\ EndsWith(formatted.text, " TB")

(***************************************************************************)
(* C8: for every non-negative integer n, formatting n in the byte unit,    *)
(* forced or auto-selected, gives exactly "<n> B".                         *)
(***************************************************************************)
C8_ByteUnitExact ==
    (Formatted /\ (args.unit = "b" \/ (args.unit = None /\ ~Geq(size, KBPow(1))))) =>
        formatted.text = Dec(size) \o " B"

(***************************************************************************)
(* C9: a forced unit is always the unit of the result, whatever n is: the  *)
(* number is n divided by the unit's multiplier, with two decimals for     *)
(* KB..TB and as an integer for B, then a space and the suffix.            *)
(***************************************************************************)
C9_ForcedUnitRendering ==
    (Formatted /\ args.unit # None) =>
        ShowsIn(formatted.text, size, UNIT_MAP[args.unit].exp)

(***************************************************************************)
(* C10: auto-formatting applies no carry-over: for KB^k <= n < KB^(k+1),   *)
(* k in 1..3, the text is the plain quotient n / KB^k with two decimals in *)
(* the unit of exponent k, also when that quotient displays as 1024.00.    *)
(***************************************************************************)
C10_NoCarryOver ==
    (Formatted /\ args.unit = None) =>
        \A k \in 1 .. 3 : InBand(size, k) => ShowsIn(formatted.text, size, k)

C10_Witness ==
    /\ Formatted /\ args.unit = None
    /\ size = <<KB - 1, KB - 1>>
    /\ formatted.text = "1024.00 KB"

(***************************************************************************)
(* Reading a tree, for the properties of the directory scan.               *)
(***************************************************************************)
RECURSIVE SumSizes(_)
SumSizes(nodes) ==
    IF nodes = <<>> THEN <<>> ELSE Add(Head(nodes).size, SumSizes(Tail(nodes)))

IsFile(node) == node.kind = "file"

IsDir(node) == node.kind = "dir"

IsReadableFile(node) == node.kind = "file" /\ node.fault = "none"

RECURSIVE Flatten(_)
Flatten(nodes) ==
    IF nodes = <<>> THEN <<>> ELSE Head(nodes).entries \o Flatten(Tail(nodes))

\* the regular files directly in the directory, and those in its subdirectories
Direct(node) == SelectSeq(node.entries, IsFile)

Deeper(node) == SelectSeq(Flatten(SelectSeq(node.entries, IsDir)), IsFile)

ListFaults == {"list_perm", "list_io"}

Within(node) == node.entries \o Flatten(SelectSeq(node.entries, IsDir))

\* every directory can be listed and every entry's metadata read
AllReadable(node) ==
    /\ node.fault = "none"
    /\ \A i \in 1 .. Len(Within(node)) : Within(node)[i].fault = "none"

Tree == fs.t

\* the nodes of the entries the loop has been through
Seen ==
    LET all  == Iterate(args, path, Tree)
        done == SubSeq(all, 1, Len(all) - Len(iterator))
    IN  [i \in 1 .. Len(done) |-> done[i].node]

(***************************************************************************)
(* C5: a directory with N regular files directly in it and M more in its   *)
(* subdirectories, all readable, gives fileCount N and the sum of the N    *)
(* sizes without the recursive flag, N + M and the sum of all with it; and *)
(* after every step of the loop the running size is the sum of the sizes   *)
(* of exactly the files counted.                                           *)
(***************************************************************************)
C5_DirectoryTotals ==
    /\ (pc = "scan" /\ IsDir(Tree)) =>
          /\ file_count = Len(SelectSeq(Seen, IsReadableFile))
          /\ total_size = SumSizes(SelectSeq(Seen, IsReadableFile))
    /\ (pc = "computed" /\ IsDir(Tree)) =>
          /\ stats.files = Len(SelectSeq(Seen, IsReadableFile))
          /\ stats.size = SumSizes(SelectSeq(Seen, IsReadableFile))
    /\ (pc = "computed" /\ IsDir(Tree) /\ AllReadable(Tree)) =>
          IF args.recursive
          THEN /\ stats.files = Len(Direct(Tree)) + Len(Deeper(Tree))
               /\ stats.size = Add(SumSizes(Direct(Tree)), SumSizes(Deeper(Tree)))
          ELSE /\ stats.files = Len(Direct(Tree))
               /\ stats.size = SumSizes(Direct(Tree))

C5_Witness ==
    /\ pc = "computed" /\ IsDir(Tree) /\ AllReadable(Tree)
    /\ args.recursive
    /\ Len(Direct(Tree)) = 2 /\ Len(Deeper(Tree)) = 1
    /\ stats.files = 3
    /\ stats.size = <<399, 0, 1>>

(***************************************************************************)
(* C3: _compute_size on a path that does not exist fails with              *)
(* FileNotFoundError, for either value of the recursive flag.              *)
(***************************************************************************)
C3_MissingPathNotFound ==
    (pc # "compute_call" /\ Tree.kind = "missing") =>
        pc = "raised" /\ stats.st = "FileNotFoundError"

(***************************************************************************)
(* C6: a metadata failure on an entry met during a directory scan, in      *)
(* is_file() or in stat(), is skipped: the scan ends with the totals of    *)
(* the entries whose metadata could be read, and only a failure to list a  *)
(* directory makes _compute_size fail.                                     *)
(***************************************************************************)
C6_EntryFailuresSkipped ==
    LET listing == \/ Tree.fault \in ListFaults
                   \/ /\ args.recursive
                      /\ \E i \in 1 .. Len(Tree.entries) :
                            IsDir(Tree.entries[i]) /\ Tree.entries[i].fault \in ListFaults
        met     == IF args.recursive THEN Within(Tree) ELSE Tree.entries
    IN  (pc \in {"computed", "raised"} /\ IsDir(Tree)) =>
            /\ pc = "raised" => listing
            /\ ~listing =>
                  /\ pc = "computed"
                  /\ stats.files = Len(SelectSeq(met, IsReadableFile))
                  /\ stats.size = SumSizes(SelectSeq(met, IsReadableFile))

(***************************************************************************)
(* The lines get_size is to produce, for the properties of the loop.       *)
(***************************************************************************)
Paths == args.paths

NodeOf(i) == Lookup(fs, Path(Paths[i]))

\* the last path the loop is through ended in a result of _compute_size
Succeeded == pc = "loop" /\ idx > 1 /\ stats.st = "ok"

Label(n) == IF n = 1 THEN "file" ELSE "files"

(***************************************************************************)
(* C1: get_size gives one line per path, in order; a path the Size         *)
(* Calculator fails for (not found, I/O error, neither file nor directory) *)
(* gives "<path>: Error - <message>" and the loop goes on.                 *)
(***************************************************************************)
C1_OneLinePerPath ==
    (pc = "exited" /\ ~interrupted) =>
        /\ Len(results) = Len(Paths)
        /\ output = Join(results)
        /\ \A i \in 1 .. Len(Paths) :
             /\ NodeOf(i).kind = "missing" =>
                   results[i] = Paths[i] \o ": Error - Path does not exist: "
                                  \o Path(Paths[i])
             /\ (NodeOf(i).kind = "other" /\ NodeOf(i).fault = "none") =>
                   results[i] = Paths[i] \o ": Error - Path is neither file nor directory: "
                                  \o Path(Paths[i])

(***************************************************************************)
(* C2: main returns 0 whenever parsing succeeded and no interrupt came,    *)
(* also when paths failed in the Size Calculator; 130 exactly on a         *)
(* KeyboardInterrupt; 1 only on an error that is no per-path failure.      *)
(***************************************************************************)
C2_ExitCodes ==
    pc = "exited" => exit = (IF interrupted THEN 130 ELSE 0)

(***************************************************************************)
(* C4 as stated: the line of a successfully computed path is the decimal   *)
(* byte size alone in clean mode, and otherwise                            *)
(* "<path>: <formatted size> (<fileCount> file|files)" with the path       *)
(* string the caller supplied, "file" exactly for a count of 1.            *)
(***************************************************************************)
C4_LineWithSuppliedPath ==
    Succeeded =>
        IF args.clean
        THEN IsDecimal(results[idx - 1]) /\ ParseDec(results[idx - 1]) = stats.size
        ELSE results[idx - 1] =
                Paths[idx - 1] \o ": " \o _format_size(args, stats.size).text
                \o " (" \o DecNat(stats.files) \o " " \o Label(stats.files) \o ")"

(***************************************************************************)
(* C4 as amended: the same, with the path as pathlib renders it,           *)
(* str(Path(path_str)): the supplied string without repeated or trailing   *)
(* separators and "." components.                                          *)
(***************************************************************************)
C4_LineWithNormalisedPath ==
    Succeeded =>
        IF args.clean
        THEN IsDecimal(results[idx - 1]) /\ ParseDec(results[idx - 1]) = stats.size
        ELSE results[idx - 1] =
                Path(Paths[idx - 1]) \o ": " \o _format_size(args, stats.size).text
                \o " (" \o DecNat(stats.files) \o " " \o Label(stats.files) \o ")"

C4_Witness ==
    /\ Succeeded
    /\ ~args.clean /\ args.unit = None /\ ~args.recursive
    /\ Paths[idx - 1] = "d/"
    /\ results[idx - 1] = "d: 300 B (2 files)"

=============================================================================
